---- MODULE Spec2Model ----
(***************************************************************************)
(* Header propagation and authorization gating of the genkit "headers"     *)
(* sample (go/samples/headers/main.go): the context carrier                 *)
(* (WithHeaders / GetHeaders), the "Bearer " gate of the three flows, the   *)
(* composite flow testAllCoffeeFlows and the POST /testAllCoffeeFlows       *)
(* handler.                                                                 *)
(*                                                                          *)
(* Strings whose content the code inspects (Authorization values, request   *)
(* bodies) are sequences of characters; strings the code only passes on     *)
(* (model texts, error messages) are opaque TLA+ strings.                   *)
(***************************************************************************)
EXTENDS Integers, Sequences, FiniteSets, TLC

\* ------------------------------------------------------------------ bounds
MaxTokenLen == 1
MaxBodyLen == 3
MaxCtxs == 4
NumRequests == 2

\* ----------------------------------------------------------------- strings
\* The literal "Bearer " of strings.HasPrefix(..., "Bearer ") (lines 119, 169, 204).
BearerPrefix == <<"B", "e", "a", "r", "e", "r", " ">>

\* strings.HasPrefix(s, prefix)
HasPrefix(s, prefix) ==
    /\ Len(s) >= Len(prefix)
    /\ SubSeq(s, 1, Len(prefix)) = prefix

SeqsUpTo(S, n) == UNION {[1..k -> S] : k \in 0..n}

\* --------------------------------------------------------------- http.Header
\* An http.Header is a map from canonical key to a list of values; the nil map
\* is a value of the type too.  m[k] = <<>> stands for "key k not in the map".
HeaderKeys == {"Authorization", "X-Request-Id"}

NilHeader == [nil |-> TRUE, m |-> [k \in HeaderKeys |-> <<>>]]

MkHeader(auth, rid) ==
    [nil |-> FALSE,
     m |-> [k \in HeaderKeys |-> IF k = "Authorization" THEN auth ELSE rid]]

\* textproto.CanonicalMIMEHeaderKey on the two keys the flows ask for.
CanonicalKey(k) == IF k = "X-Request-ID" THEN "X-Request-Id" ELSE k

\* http.Header.Get: the first value under the canonical key, "" when there is none
\* (also on the nil map).
Get(h, k) ==
    LET vs == h.m[CanonicalKey(k)]
    IN IF h.nil \/ vs = <<>> THEN <<>> ELSE vs[1]

\* ------------------------------------------------------------------ context
\* A context.Context is the chain of its bindings, oldest first.  A bound value is
\* an http.Header or something of another type.
HeaderContextKey == "HeaderContextKey{}"

Background == <<>>

HeaderVal(h) == [type |-> "http.Header", h |-> h]
OtherVal == [type |-> "other", h |-> NilHeader]

\* context.WithValue(ctx, key, val)
WithValue(c, key, val) == Append(c, [key |-> key, val |-> val])

\* ctx.Value(key): the most recent binding of key, with ok = FALSE when there is none
Value(c, key) ==
    LET idx == {i \in 1..Len(c) : c[i].key = key}
    IN IF idx = {} THEN [ok |-> FALSE, val |-> OtherVal]
       ELSE [ok |-> TRUE, val |-> c[CHOOSE i \in idx : \A j \in idx : j <= i].val]

\* WithHeaders (lines 37-39)
WithHeaders(c, headers) == WithValue(c, HeaderContextKey, HeaderVal(headers))

\* GetHeaders as it would be if a miss gave an empty map instead of nil
GetHeadersEmptyOnMiss(c) ==
    LET v == Value(c, HeaderContextKey)
    IN IF v.ok /\ v.val.type = "http.Header" THEN v.val.h
       ELSE MkHeader(<<>>, <<>>)

\* GetHeaders (lines 42-47): the bound value when it is an http.Header, else nil
GetHeaders(c) ==
    LET v == Value(c, HeaderContextKey)
    IN IF v.ok /\ v.val.type = "http.Header" THEN v.val.h ELSE NilHeader

\* -------------------------------------------------------------------- gate
\* the gate as it would be with the prefix "Bearer", the space left out
AuthorizedNoSpace(headers) ==
    ~ (~ headers.nil /\ ~ HasPrefix(Get(headers, "Authorization"), <<"B", "e", "a", "r", "e", "r">>))

\* the gate as it would be if absent headers were refused
AuthorizedFailClosed(headers) ==
    ~ headers.nil /\ HasPrefix(Get(headers, "Authorization"), BearerPrefix)

\* The condition of lines 119, 169 and 204, negated: the flow goes on.
Authorized(headers) ==
    ~ (~ headers.nil /\ ~ HasPrefix(Get(headers, "Authorization"), BearerPrefix))

\* ------------------------------------------------------------ input domains
TokenChars == {"a", " "}
Tokens == SeqsUpTo(TokenChars, MaxTokenLen)
Schemes ==
    { BearerPrefix,
      <<"b", "e", "a", "r", "e", "r", " ">>,
      <<"B", "a", "s", "i", "c", " ">>,
      <<"B", "e", "a", "r", "e", "r">>,
      <<>> }
AuthValues == {s \o t : s \in Schemes, t \in Tokens}

\* Authorization entries: no entry, one value, or two values (Get reads the first).
AuthEntries ==
    {<<>>} \cup {<<v>> : v \in AuthValues}
           \cup { <<BearerPrefix \o <<"a">>, <<"B", "a", "s", "i", "c", " ">> >>,
                  << <<"B", "a", "s", "i", "c", " ">>, BearerPrefix \o <<"a">> >> }
RidEntries == {<<>>, << <<"7">> >>}

\* The header maps of requests (net/http never hands a handler a nil map).
Headers == {MkHeader(a, r) : a \in AuthEntries, r \in RidEntries}

\* --------------------------------------------------------- request bodies
\* Bodies are texts over a JSON-relevant alphabet: "{" "}" (the empty object is the
\* only object they can spell), "1" (a digit) and "x" (a byte that starts no value).
BodyChars == {"{", "}", "1", "x"}
Bodies == SeqsUpTo(BodyChars, MaxBodyLen)

\* the end of the run of digits that starts at position i
RECURSIVE DigitsEnd(_, _)
DigitsEnd(b, i) ==
    IF i < Len(b) /\ b[i + 1] = "1" THEN DigitsEnd(b, i + 1) ELSE i

\* json.Decoder.readValue: the first value of the text and the bytes it spans.
\* What follows the first value is left unread.
ReadValue(b) ==
    IF Len(b) = 0 THEN [kind |-> "EOF", n |-> 0]
    ELSE IF b[1] = "1" THEN [kind |-> "number", n |-> DigitsEnd(b, 1)]
    ELSE IF b[1] = "{" THEN
        IF Len(b) = 1 THEN [kind |-> "unexpectedEOF", n |-> 1]
        ELSE IF b[2] = "}" THEN [kind |-> "object", n |-> 2]
        ELSE [kind |-> "syntax", n |-> 1]
    ELSE [kind |-> "syntax", n |-> 0]

\* json.NewDecoder(r.Body).Decode(&input) with input of type struct{} (line 260):
\* err # nil unless the first value is an object.
DecodeFails(b) == ReadValue(b).kind # "object"

\* r.ContentLength: the declared length, -1 for a body sent with chunked encoding
ContentLength(r) == IF r.chunked THEN -1 ELSE Len(r.body)

NoReq == [method |-> "", header |-> NilHeader, body |-> <<>>, chunked |-> FALSE]

\* The mux pattern "POST /testAllCoffeeFlows" (line 250) hands the handler POST
\* requests only.
Requests ==
    [method : {"POST"}, header : Headers, body : Bodies, chunked : BOOLEAN]

\* r.Context(): the server's context, which binds keys of its own.
RequestContext == WithValue(Background, "http-server", OtherVal)

\* ------------------------------------------------------------------- flows
SimpleGreeting == "simpleGreeting"
GreetingWithHistory == "greetingWithHistory"
TestAllCoffeeFlows == "testAllCoffeeFlows"
LeafFlows == {SimpleGreeting, GreetingWithHistory}
Flows == LeafFlows \cup {TestAllCoffeeFlows}

InvalidAuth == "invalid authorization header"
MechanismError == "flow invocation failed"
UpstreamErrors == {"upstream model error"}
Texts == {"", "latte", "mocha"}

\* what prompt.Execute can come back with: a text, or an error
ModelOutcomes ==
    [ok : {TRUE}, msg : Texts] \cup [ok : {FALSE}, msg : UpstreamErrors]

\* testAllCoffeeFlowsOutput (lines 79-83)
ZeroOutput == [Pass |-> FALSE, Replies |-> <<>>, Error |-> ""]

\* what a flow hands back: (text or *testAllCoffeeFlowsOutput, error); err is <<>>
\* for nil and <<message>> otherwise
NoRet == [text |-> "", out |-> ZeroOutput, err |-> <<>>]

LeafOk(text) == [text |-> text, out |-> ZeroOutput, err |-> <<>>]
LeafErr(msg) == [text |-> "", out |-> ZeroOutput, err |-> <<msg>>]

\* a failure return that hands the error on instead of folding it into the result
FailResultPropagate(msg) == [text |-> "", out |-> ZeroOutput, err |-> <<msg>>]

\* a failure return that fills replies as well as error
FailResultKeepsReplies(msg) ==
    [text |-> "",
     out |-> [Pass |-> FALSE, Replies |-> <<msg>>, Error |-> msg],
     err |-> <<>>]

\* the three failure returns of the composite flow (lines 205-208, 220-223, 233-236)
FailResult(msg) ==
    [text |-> "",
     out |-> [Pass |-> FALSE, Replies |-> <<>>, Error |-> msg],
     err |-> <<>>]

\* the success return of the composite flow (lines 239-245)
SuccessResult(t1, t2) ==
    [text |-> "",
     out |-> [Pass |-> TRUE, Replies |-> <<t1, t2>>, Error |-> ""],
     err |-> <<>>]

\* json.NewEncoder(w).Encode(output) (line 288): replies and error carry omitempty,
\* so each is in the body (<<value>>) or left out (<<>>).
EncodeOutput(o) ==
    [pass |-> o.Pass,
     replies |-> IF Len(o.Replies) = 0 THEN <<>> ELSE <<o.Replies>>,
     error |-> IF o.Error = "" THEN <<>> ELSE <<o.Error>>]

\* what the handler writes: a status with a text (http.Error) or with a JSON body
NoResp == [status |-> 0, text |-> <<>>, json |-> <<>>]
TextResp(status, text) == [status |-> status, text |-> text, json |-> <<>>]
JsonResp(status, o) == [status |-> status, text |-> <<>>, json |-> <<EncodeOutput(o)>>]

\* the entries of a task's trace
Ev(ev, flow, headers, ok, msg) ==
    [ev |-> ev, flow |-> flow, headers |-> headers, ok |-> ok, msg |-> msg]
EvRun(flow) == Ev("run", flow, NilHeader, TRUE, "")
EvGate(flow, headers, ok) == Ev("gate", flow, headers, ok, "")
EvModel(flow) == Ev("model", flow, NilHeader, TRUE, "")
EvReturn(flow, r) ==
    Ev("return", flow, NilHeader, r.err = <<>>, IF r.err = <<>> THEN r.text ELSE r.err[1])

\* ------------------------------------------------------------------- state
Tasks == 1..NumRequests

VARIABLES
    pc,      \* where each task is
    req,     \* the HTTP request a task serves
    stack,   \* a task's call chain: frames [flow, ctx], the caller first
    test1,   \* the composite flow's local test1
    ret,     \* the value the innermost flow has returned
    resp,    \* the HTTP response written
    log,     \* the task's trace
    cc       \* the context carrier exercised on its own

vars == <<pc, req, stack, test1, ret, resp, log, cc>>
taskVars == <<pc, req, stack, test1, ret, resp, log>>

Frame(flow, c) == [flow |-> flow, ctx |-> c]
Top(t) == stack[t][Len(stack[t])]
Caller(t) == stack[t][Len(stack[t]) - 1]
Pop(s) == SubSeq(s, 1, Len(s) - 1)

\* -------------------------------------------------------------- the handler
\* r.Header as the handler reads it (line 273)
\* r.Header as it would be read from a variable the requests share
RequestHeaderOfFirst(t) == req[1].header

RequestHeader(t) == req[t].header

\* The body check of lines 258-265: TRUE when the handler answers 400.
\* the body check as it would be without the ContentLength guard
BodyRejectedAlways(r) == DecodeFails(r.body)

BodyRejected(r) == ContentLength(r) > 0 /\ DecodeFails(r.body)

\* A request reaches the handler.
Receive(t, R) ==
    /\ pc[t] = "idle"
    /\ \E r \in R : req' = [req EXCEPT ![t] = r]
    /\ pc' = [pc EXCEPT ![t] = "handler"]
    /\ stack' = [stack EXCEPT ![t] = <<Frame("handler", RequestContext)>>]
    /\ UNCHANGED <<test1, ret, resp, log, cc>>

\* Lines 251-265: the method check and the body check answer the request themselves.
HandlerReject(t) ==
    /\ pc[t] = "handler"
    /\ req[t].method # "POST" \/ BodyRejected(req[t])
    /\ resp' = [resp EXCEPT ![t] =
                  IF req[t].method # "POST"
                  THEN TextResp(405, <<"Method not allowed">>)
                  ELSE TextResp(400, <<"Invalid input">>)]
    /\ pc' = [pc EXCEPT ![t] = "done"]
    /\ UNCHANGED <<req, stack, test1, ret, log, cc>>

\* Lines 267-278: bind the request's headers and run the composite flow.
HandlerRun(t) ==
    /\ pc[t] = "handler"
    /\ req[t].method = "POST"
    /\ ~ BodyRejected(req[t])
    /\ stack' = [stack EXCEPT ![t] =
                   Append(@, Frame(TestAllCoffeeFlows,
                                   WithHeaders(stack[t][1].ctx, RequestHeader(t))))]
    /\ log' = [log EXCEPT ![t] = Append(@, EvRun(TestAllCoffeeFlows))]
    /\ pc' = [pc EXCEPT ![t] = "call"]
    /\ UNCHANGED <<req, test1, ret, resp, cc>>

\* Lines 279-290: 500 when Run came back with an error, else 200 and the output.
HandlerRespond(t) ==
    /\ pc[t] = "ret"
    /\ Len(stack[t]) = 2
    /\ stack[t][1].flow = "handler"
    /\ resp' = [resp EXCEPT ![t] =
                  IF ret[t].err # <<>>
                  THEN TextResp(500, <<"Flow error: ", ret[t].err[1]>>)
                  ELSE JsonResp(200, ret[t].out)]
    /\ stack' = [stack EXCEPT ![t] = Pop(@)]
    /\ pc' = [pc EXCEPT ![t] = "done"]
    /\ UNCHANGED <<req, test1, ret, log, cc>>

\* ------------------------------------------------------ flows run directly
\* A flow run by another caller of the registry (not through the handler), with
\* whatever context that caller holds.
DirectInvoke(t, F, C) ==
    /\ pc[t] = "idle"
    /\ \E f \in F, c \in C :
         /\ stack' = [stack EXCEPT ![t] = <<Frame("direct", c), Frame(f, c)>>]
         /\ log' = [log EXCEPT ![t] = Append(@, EvRun(f))]
    /\ pc' = [pc EXCEPT ![t] = "call"]
    /\ UNCHANGED <<req, test1, ret, resp, cc>>

DirectReturn(t) ==
    /\ pc[t] = "ret"
    /\ Len(stack[t]) = 2
    /\ stack[t][1].flow = "direct"
    /\ pc' = [pc EXCEPT ![t] = "done"]
    /\ UNCHANGED <<req, stack, test1, ret, resp, log, cc>>

\* ------------------------------------------------------------- Flow.Run
\* Run enters the flow's function ...
RunEnter(t) ==
    /\ pc[t] = "call"
    /\ pc' = [pc EXCEPT ![t] = "fn"]
    /\ UNCHANGED <<req, stack, test1, ret, resp, log, cc>>

\* ... or fails in the framework without entering it.
RunMechFail(t) ==
    /\ pc[t] = "call"
    /\ ret' = [ret EXCEPT ![t] = LeafErr(MechanismError)]
    /\ log' = [log EXCEPT ![t] =
                 @ \o <<Ev("mechfail", Top(t).flow, NilHeader, FALSE, MechanismError),
                        EvReturn(Top(t).flow, LeafErr(MechanismError))>>]
    /\ pc' = [pc EXCEPT ![t] = "ret"]
    /\ UNCHANGED <<req, stack, test1, resp, cc>>

\* ------------------------------------------------------------ leaf flows
\* Lines 110-140 and 160-183: read the headers, apply the gate, and either fail or
\* go on to prompt.Execute.  json.Marshal of the input records (strings only)
\* always succeeds.
LeafGate(t) ==
    /\ pc[t] = "fn"
    /\ Top(t).flow \in LeafFlows
    /\ LET headers == GetHeaders(Top(t).ctx)
           f == Top(t).flow
       IN IF ~ Authorized(headers)
          THEN /\ ret' = [ret EXCEPT ![t] = LeafErr(InvalidAuth)]
               /\ log' = [log EXCEPT ![t] =
                            @ \o <<EvGate(f, headers, FALSE),
                                   EvReturn(f, LeafErr(InvalidAuth))>>]
               /\ pc' = [pc EXCEPT ![t] = "ret"]
          ELSE /\ ret' = ret
               /\ log' = [log EXCEPT ![t] =
                            @ \o <<EvGate(f, headers, TRUE), EvModel(f)>>]
               /\ pc' = [pc EXCEPT ![t] = "exec"]
    /\ UNCHANGED <<req, stack, test1, resp, cc>>

\* Lines 137-144 and 181-187: prompt.Execute comes back.
ModelReply(t, O) ==
    /\ pc[t] = "exec"
    /\ \E o \in O :
         LET r == IF o.ok THEN LeafOk(o.msg) ELSE LeafErr(o.msg)
         IN /\ ret' = [ret EXCEPT ![t] = r]
            /\ log' = [log EXCEPT ![t] = Append(@, EvReturn(Top(t).flow, r))]
    /\ pc' = [pc EXCEPT ![t] = "ret"]
    /\ UNCHANGED <<req, stack, test1, resp, cc>>

\* -------------------------------------------------------- composite flow
\* the leaf flows run with a fresh context instead of the composite flow's
CalleeCtxBackground(c) == Background

\* the context the composite flow hands to the leaf flows (lines 216, 227)
CalleeCtx(c) == c

\* the two leaf flows run in the other order
FirstLeafHistory == GreetingWithHistory

\* the flow run first (line 216) and the one run second (line 227)
FirstLeaf == SimpleGreeting
SecondLeaf == IF FirstLeaf = SimpleGreeting THEN GreetingWithHistory ELSE SimpleGreeting

\* Lines 193-216: read the headers, apply the gate, run the first leaf flow.
CoffeeGate(t) ==
    /\ pc[t] = "fn"
    /\ Top(t).flow = TestAllCoffeeFlows
    /\ LET headers == GetHeaders(Top(t).ctx)
       IN IF ~ Authorized(headers)
          THEN /\ ret' = [ret EXCEPT ![t] = FailResult(InvalidAuth)]
               /\ log' = [log EXCEPT ![t] =
                            Append(@, EvGate(TestAllCoffeeFlows, headers, FALSE))]
               /\ stack' = stack
               /\ pc' = [pc EXCEPT ![t] = "ret"]
          ELSE /\ ret' = ret
               /\ log' = [log EXCEPT ![t] =
                            @ \o <<EvGate(TestAllCoffeeFlows, headers, TRUE),
                                   EvRun(FirstLeaf)>>]
               /\ stack' = [stack EXCEPT ![t] =
                              Append(@, Frame(FirstLeaf, CalleeCtx(Top(t).ctx)))]
               /\ pc' = [pc EXCEPT ![t] = "call"]
    /\ UNCHANGED <<req, test1, resp, cc>>

\* a leaf flow has come back to the composite flow
BackInCoffee(t) ==
    /\ pc[t] = "ret"
    /\ Len(stack[t]) = 3
    /\ Caller(t).flow = TestAllCoffeeFlows

\* Lines 219-224 and 232-237: the leaf flow failed.
CoffeeLeafFailed(t) ==
    /\ BackInCoffee(t)
    /\ ret[t].err # <<>>
    /\ ret' = [ret EXCEPT ![t] = FailResult(ret[t].err[1])]
    /\ stack' = [stack EXCEPT ![t] = Pop(@)]
    /\ UNCHANGED <<pc, req, test1, resp, log, cc>>

\* Lines 219, 226-231: the first leaf flow succeeded; run the second.
CoffeeAfterFirst(t) ==
    /\ BackInCoffee(t)
    /\ ret[t].err = <<>>
    /\ Top(t).flow = FirstLeaf
    /\ test1' = [test1 EXCEPT ![t] = ret[t].text]
    /\ stack' = [stack EXCEPT ![t] =
                   Append(Pop(@), Frame(SecondLeaf, CalleeCtx(Caller(t).ctx)))]
    /\ log' = [log EXCEPT ![t] = Append(@, EvRun(SecondLeaf))]
    /\ pc' = [pc EXCEPT ![t] = "call"]
    /\ UNCHANGED <<req, ret, resp, cc>>

\* Lines 232, 239-245: both succeeded.
CoffeeAfterSecond(t) ==
    /\ BackInCoffee(t)
    /\ ret[t].err = <<>>
    /\ Top(t).flow = SecondLeaf
    /\ ret' = [ret EXCEPT ![t] = SuccessResult(test1[t], ret[t].text)]
    /\ stack' = [stack EXCEPT ![t] = Pop(@)]
    /\ UNCHANGED <<pc, req, test1, resp, log, cc>>

\* ------------------------------------------------------ the carrier alone
CarrierHeaders ==
    { NilHeader,
      MkHeader(<<>>, <<>>),
      MkHeader(<<BearerPrefix \o <<"a">>>>, <<>>),
      MkHeader(<< <<"B", "a", "s", "i", "c", " ">> >>, << <<"7">> >>) }

\* bindings made with context.WithValue by other code: another key, or a value of
\* another type
OtherBindings == {[key |-> "other", val |-> OtherVal],
                  [key |-> HeaderContextKey, val |-> OtherVal]}

CarrierInit ==
    [ctxs |-> <<Background>>, attached |-> <<FALSE>>, op |-> "none", src |-> 1,
     arg |-> NilHeader, base |-> Background]

\* ctx' := WithHeaders(ctxs[i], h), kept beside the contexts already held
Attach(i, h) ==
    /\ Len(cc.ctxs) < MaxCtxs
    /\ cc' = [ctxs |-> Append(cc.ctxs, WithHeaders(cc.ctxs[i], h)),
              attached |-> Append(cc.attached, TRUE),
              op |-> "attach", src |-> i, arg |-> h, base |-> cc.ctxs[i]]
    /\ UNCHANGED taskVars

\* ctx' := context.WithValue(ctxs[i], key, val)
BindOther(i, b) ==
    /\ Len(cc.ctxs) < MaxCtxs
    /\ cc' = [ctxs |-> Append(cc.ctxs, WithValue(cc.ctxs[i], b.key, b.val)),
              attached |-> Append(cc.attached, cc.attached[i]),
              op |-> "bind", src |-> i, arg |-> NilHeader, base |-> cc.ctxs[i]]
    /\ UNCHANGED taskVars

\* ------------------------------------------------------- specifications
Init ==
    /\ pc = [t \in Tasks |-> "idle"]
    /\ req = [t \in Tasks |-> NoReq]
    /\ stack = [t \in Tasks |-> <<>>]
    /\ test1 = [t \in Tasks |-> ""]
    /\ ret = [t \in Tasks |-> NoRet]
    /\ resp = [t \in Tasks |-> NoResp]
    /\ log = [t \in Tasks |-> <<>>]
    /\ cc = CarrierInit

\* the contexts other callers run the flows with
DirectContexts ==
    {Background, RequestContext, WithValue(Background, HeaderContextKey, OtherVal)}
        \cup {WithHeaders(Background, h) : h \in Headers \cup {NilHeader}}

FlowStep(t, O) ==
    \/ RunEnter(t)
    \/ RunMechFail(t)
    \/ LeafGate(t)
    \/ ModelReply(t, O)
    \/ CoffeeGate(t)
    \/ CoffeeLeafFailed(t)
    \/ CoffeeAfterFirst(t)
    \/ CoffeeAfterSecond(t)

\* One task: a request served by the handler, or a flow run directly.
Next ==
    \/ Receive(1, Requests)
    \/ HandlerReject(1)
    \/ HandlerRun(1)
    \/ HandlerRespond(1)
    \/ DirectInvoke(1, Flows, DirectContexts)
    \/ DirectReturn(1)
    \/ FlowStep(1, ModelOutcomes)

Spec == Init /\ [][Next]_vars

\* Several requests served at once, in any interleaving.
ConcRequests ==
    [method : {"POST"},
     header : {MkHeader(<<BearerPrefix \o <<"a">>>>, <<>>),
               MkHeader(<< <<"B", "a", "s", "i", "c", " ">> >>, <<>>)},
     body : {<<>>, <<"x">>},
     chunked : {FALSE}]
ConcOutcomes ==
    [ok : {TRUE}, msg : {"latte"}] \cup [ok : {FALSE}, msg : UpstreamErrors]

NextConc ==
    \E t \in Tasks :
        \/ Receive(t, ConcRequests)
        \/ HandlerReject(t)
        \/ HandlerRun(t)
        \/ HandlerRespond(t)
        \/ FlowStep(t, ConcOutcomes)

SpecConc == Init /\ [][NextConc]_vars

\* The carrier's two functions applied to contexts built up step by step.
NextCarrier ==
    \/ \E i \in 1..Len(cc.ctxs), h \in CarrierHeaders : Attach(i, h)
    \/ \E i \in 1..Len(cc.ctxs), b \in OtherBindings : BindOther(i, b)

SpecCarrier == Init /\ [][NextCarrier]_vars

\* ------------------------------------------------------ notions of the claims
\* "s starts with the literal Bearer and one space", spelled out
StartsWithBearer(s) ==
    /\ Len(s) >= 7
    /\ s[1] = "B" /\ s[2] = "e" /\ s[3] = "a" /\ s[4] = "r"
    /\ s[5] = "e" /\ s[6] = "r" /\ s[7] = " "

\* the Authorization value of a header map: its first value, "" when it has none
AuthorizationOf(h) ==
    IF h.m["Authorization"] = <<>> THEN <<>> ELSE h.m["Authorization"][1]

\* the whole text is one JSON value (json.Valid)
JSONValid(b) ==
    \/ b = <<"{", "}">>
    \/ Len(b) > 0 /\ \A i \in 1..Len(b) : b[i] = "1"

Events(t) == {log[t][i] : i \in 1..Len(log[t])}
Has(t, ev, flow) == \E e \in Events(t) : e.ev = ev /\ e.flow = flow

IsHttp(t) == stack[t] # <<>> /\ stack[t][1].flow = "handler"
IsDirect(t) == stack[t] # <<>> /\ stack[t][1].flow = "direct"
Answered(t) == IsHttp(t) /\ pc[t] = "done"

\* the task ran the composite flow, and the flow has come back
CoffeeRan(t) == log[t] # <<>> /\ log[t][1] = EvRun(TestAllCoffeeFlows)
CoffeeBack(t) ==
    /\ CoffeeRan(t)
    /\ pc[t] = "done" \/ (pc[t] = "ret" /\ Len(stack[t]) = 2)
\* ... its function having run (Run did not fail in the framework)
CoffeeFnBack(t) == CoffeeBack(t) /\ ~ Has(t, "mechfail", TestAllCoffeeFlows)

\* ---------------------------------------------------------------- claim C1
\* C1: in each of the three flows, when the context holds a (non-nil) header
\* collection the gate lets the flow go on exactly when the collection's
\* Authorization value starts with the case-sensitive literal "Bearer "; a rejected
\* leaf flow returns the error "invalid authorization header", a rejected
\* composite flow the result {pass:false, error:"invalid authorization header"},
\* and an accepted flow goes on to its next call.
C1_GateIsBearerPrefix ==
    \A t \in Tasks : \A i \in 1..Len(log[t]) :
        LET e == log[t][i] IN
        (e.ev = "gate" /\ ~ e.headers.nil) =>
            /\ e.ok <=> StartsWithBearer(AuthorizationOf(e.headers))
            /\ (e.flow \in LeafFlows /\ ~ e.ok) =>
                   log[t][i + 1] = Ev("return", e.flow, NilHeader, FALSE, InvalidAuth)
            /\ (e.flow \in LeafFlows /\ e.ok) => log[t][i + 1] = EvModel(e.flow)
            /\ (e.flow = TestAllCoffeeFlows /\ ~ e.ok) =>
                   /\ i = Len(log[t])
                   /\ ret[t] = [text |-> "", err |-> <<>>,
                                out |-> [Pass |-> FALSE, Replies |-> <<>>,
                                         Error |-> InvalidAuth]]
            /\ (e.flow = TestAllCoffeeFlows /\ e.ok) => log[t][i + 1].ev = "run"

\* a leaf flow, run with headers whose Authorization is "Bearer" without the
\* space, has been rejected
C1_Witness ==
    /\ pc[1] = "done"
    /\ \E e \in Events(1) :
        /\ e.ev = "gate" /\ e.flow = GreetingWithHistory /\ ~ e.headers.nil
        /\ AuthorizationOf(e.headers) = <<"B", "e", "a", "r", "e", "r">>
        /\ ~ e.ok

\* ---------------------------------------------------------------- claim C2
\* the context was never given a header collection
NoHeadersIn(c) ==
    \A i \in 1..Len(c) : ~ (c[i].key = HeaderContextKey /\ c[i].val.type = "http.Header")

DirectLeafNoHeaders(t) ==
    /\ IsDirect(t)
    /\ stack[t][2].flow \in LeafFlows
    /\ NoHeadersIn(stack[t][2].ctx)

\* C2: a leaf flow run directly with a context that carries no header collection
\* passes its gate and goes on to the model call (once Run has entered its
\* function); it never returns "invalid authorization header".
C2_NoHeadersGatePasses ==
    \A t \in Tasks :
        DirectLeafNoHeaders(t) =>
            /\ ret[t].err # <<InvalidAuth>>
            /\ ~ Has(t, "return", stack[t][2].flow)
                   \/ Has(t, "mechfail", stack[t][2].flow)
                   \/ Has(t, "model", stack[t][2].flow)
            /\ (pc[t] \in {"exec", "ret", "done"}
                  /\ ~ Has(t, "mechfail", stack[t][2].flow))
                 => Has(t, "model", stack[t][2].flow)

C2_Witness ==
    /\ DirectLeafNoHeaders(1)
    /\ stack[1][2].ctx = Background
    /\ pc[1] = "exec"
    /\ Has(1, "model", SimpleGreeting)

\* ---------------------------------------------------------------- claim C3
\* C3: GetHeaders(WithHeaders(ctx, H)) is exactly H for every ctx (whatever it
\* already binds) and every H; GetHeaders of a context never passed through
\* WithHeaders is nil, not an empty collection; and WithHeaders leaves the context
\* it was given as it was.
C3_CarrierRoundTrip ==
    /\ cc.op = "attach" =>
         /\ GetHeaders(cc.ctxs[Len(cc.ctxs)]) = cc.arg
         /\ cc.ctxs[cc.src] = cc.base
    /\ \A i \in 1..Len(cc.ctxs) :
         ~ cc.attached[i] =>
             /\ GetHeaders(cc.ctxs[i]).nil
             /\ GetHeaders(cc.ctxs[i]) # MkHeader(<<>>, <<>>)

\* headers attached over an earlier attachment and another binding, beside a
\* context that was never attached to
C3_Witness ==
    /\ cc.op = "attach"
    /\ ~ cc.arg.nil
    /\ Len(cc.base) = 2
    /\ ~ NoHeadersIn(cc.base)
    /\ GetHeaders(cc.base) # cc.arg
    /\ \E i \in 2..Len(cc.ctxs) : ~ cc.attached[i]

\* ---------------------------------------------------------------- claim C4
Consistent(pass, hasReplies, hasError) ==
    /\ pass <=> hasReplies
    /\ pass <=> ~ hasError

\* C4: every result the composite flow's function returns, and every body the
\* endpoint serializes from one, has replies exactly when pass is true and a
\* non-empty error exactly when pass is false.
C4_ResultShape ==
    \A t \in Tasks :
        /\ CoffeeFnBack(t) =>
             Consistent(ret[t].out.Pass, ret[t].out.Replies # <<>>, ret[t].out.Error # "")
        /\ (Answered(t) /\ resp[t].status = 200) =>
             LET j == resp[t].json[1]
             IN Consistent(j.pass, j.replies # <<>>, j.error # <<>>)

\* the second leaf flow has failed after the first succeeded, and the composite
\* flow has returned
C4_Witness ==
    /\ CoffeeFnBack(1)
    /\ Has(1, "run", GreetingWithHistory)
    /\ \E e \in Events(1) : e.ev = "return" /\ e.flow = GreetingWithHistory /\ ~ e.ok
    /\ ~ ret[1].out.Pass
    /\ ret[1].out.Error \in UpstreamErrors

\* ---------------------------------------------------------------- claim C5
NoLeafOrModel(t) ==
    \A e \in Events(t) : e.flow \notin LeafFlows /\ e.ev # "model"

RejectionBody ==
    [pass |-> FALSE, replies |-> <<>>, error |-> <<InvalidAuth>>]

\* C5 as stated: every request with an empty or well-formed body whose
\* Authorization does not start with "Bearer " is answered 200 with
\* {pass:false, error:"invalid authorization header"}, no leaf flow and no model
\* call having been made.
C5_AsStated ==
    \A t \in Tasks :
        (/\ Answered(t)
         /\ req[t].body = <<>> \/ JSONValid(req[t].body)
         /\ ~ StartsWithBearer(AuthorizationOf(req[t].header)))
        => /\ resp[t].status = 200
           /\ resp[t].json = <<RejectionBody>>
           /\ NoLeafOrModel(t)

\* C5 amended: every request whose body is empty or is a well-formed JSON object
\* and whose Authorization does not start with "Bearer " runs no leaf flow and no
\* model call, and is answered 200 with
\* {pass:false, error:"invalid authorization header"} unless the flow-invocation
\* mechanism itself fails, in which case it is answered 500.
C5_RejectedWith200 ==
    \A t \in Tasks :
        (/\ Answered(t)
         /\ req[t].body = <<>> \/ req[t].body = <<"{", "}">>
         /\ ~ StartsWithBearer(AuthorizationOf(req[t].header)))
        => /\ NoLeafOrModel(t)
           /\ IF Has(t, "mechfail", TestAllCoffeeFlows)
              THEN resp[t].status = 500
              ELSE resp[t].status = 200 /\ resp[t].json = <<RejectionBody>>

\* "Basic " with a declared empty-object body, answered with the rejection
C5_Witness ==
    /\ Answered(1)
    /\ req[1].body = <<"{", "}">>
    /\ ~ req[1].chunked
    /\ AuthorizationOf(req[1].header) = <<"B", "a", "s", "i", "c", " ">>
    /\ resp[1].status = 200
    /\ resp[1].json = <<RejectionBody>>

\* ---------------------------------------------------------------- claim C6
\* C6: every request whose body is non-empty and not well-formed JSON is answered
\* 400 without the composite flow being invoked, whether or not it declares its
\* body length; a request with an empty body is accepted.
C6_MalformedBodyIs400 ==
    \A t \in Tasks :
        IsHttp(t) =>
            /\ (req[t].body # <<>> /\ ~ JSONValid(req[t].body)) =>
                   /\ ~ CoffeeRan(t)
                   /\ Answered(t) => resp[t].status = 400
            /\ (req[t].body = <<>> /\ Answered(t)) =>
                   resp[t].status # 400 /\ CoffeeRan(t)

\* ---------------------------------------------------------------- claim C7
\* C7: the composite flow's function always returns a nil error, whatever failed
\* inside it; the endpoint answers 500 only when the flow-invocation mechanism
\* itself failed, and otherwise, once the body is accepted, 200 with the result.
C7_NoFlowErrorEscapes ==
    \A t \in Tasks :
        /\ CoffeeFnBack(t) => ret[t].err = <<>>
        /\ Answered(t) =>
             /\ resp[t].status = 500 => Has(t, "mechfail", TestAllCoffeeFlows)
             /\ (CoffeeRan(t) /\ ~ Has(t, "mechfail", TestAllCoffeeFlows)) =>
                  /\ resp[t].status = 200
                  /\ resp[t].json # <<>>
                  /\ resp[t].json[1].pass = ret[t].out.Pass
                  /\ resp[t].json[1].error =
                       (IF ret[t].out.Error = "" THEN <<>> ELSE <<ret[t].out.Error>>)

\* an upstream failure in a leaf flow, answered 200 with pass:false
C7_Witness ==
    /\ Answered(1)
    /\ resp[1].status = 200
    /\ \E e \in Events(1) :
         e.ev = "return" /\ e.flow = SimpleGreeting /\ ~ e.ok /\ e.msg \in UpstreamErrors
    /\ resp[1].json[1].error = <<"upstream model error">>

\* ---------------------------------------------------------------- claim C8
\* positions of a task's trace
At(t, ev, flow) == {i \in 1..Len(log[t]) : log[t][i].ev = ev /\ log[t][i].flow = flow}
GatePassed(t) ==
    \E e \in Events(t) : e.ev = "gate" /\ e.flow = TestAllCoffeeFlows /\ e.ok

\* C8: once the composite flow has passed its gate, simpleGreeting is run first
\* and has returned before greetingWithHistory is run; when simpleGreeting fails
\* greetingWithHistory is never run and the result's error is simpleGreeting's
\* message; when greetingWithHistory fails the error is its message; when both
\* succeed the result is pass:true with replies <<simpleGreeting's text,
\* greetingWithHistory's text>>.
C8_LeafOrder ==
    \A t \in Tasks :
        (CoffeeRan(t) /\ GatePassed(t)) =>
            LET runS == At(t, "run", SimpleGreeting)
                retS == At(t, "return", SimpleGreeting)
                runH == At(t, "run", GreetingWithHistory)
                retH == At(t, "return", GreetingWithHistory)
            IN /\ Cardinality(runS) = 1 /\ Cardinality(runH) <= 1
               /\ \A g \in At(t, "gate", TestAllCoffeeFlows) :
                      log[t][g + 1] = EvRun(SimpleGreeting)
               /\ \A h \in runH :
                      \E r \in retS : r < h /\ log[t][r].ok
                                      /\ \A s \in runS : s < r
               /\ \A r \in retS : ~ log[t][r].ok =>
                      /\ runH = {}
                      /\ CoffeeBack(t) =>
                           ret[t].out = [Pass |-> FALSE, Replies |-> <<>>,
                                         Error |-> log[t][r].msg]
               /\ \A r \in retH : (~ log[t][r].ok /\ CoffeeBack(t)) =>
                           ret[t].out = [Pass |-> FALSE, Replies |-> <<>>,
                                         Error |-> log[t][r].msg]
               /\ \A r1 \in retS, r2 \in retH :
                      (log[t][r1].ok /\ log[t][r2].ok /\ CoffeeBack(t)) =>
                           ret[t].out = [Pass |-> TRUE,
                                         Replies |-> <<log[t][r1].msg, log[t][r2].msg>>,
                                         Error |-> ""]
               /\ CoffeeBack(t) => retS # {}
               /\ (CoffeeBack(t) /\ \A r \in retS : log[t][r].ok) => retH # {}

\* both leaf flows have succeeded with different texts, and the request is answered
C8_Witness ==
    /\ Answered(1)
    /\ resp[1].status = 200
    /\ resp[1].json[1].replies = << <<"mocha", "latte">> >>
    /\ ret[1].out.Replies = <<"mocha", "latte">>

\* ---------------------------------------------------------------- claim C9
\* what a request's answer must be, from the request and the replies to its own
\* calls alone
OwnReplies(t, flow) ==
    {log[t][i] : i \in At(t, "return", flow)}

ExpectedResp(t) ==
    IF req[t].body # <<>> /\ ~ req[t].chunked /\ ReadValue(req[t].body).kind # "object"
    THEN TextResp(400, <<"Invalid input">>)
    ELSE IF Has(t, "mechfail", TestAllCoffeeFlows)
    THEN TextResp(500, <<"Flow error: ", MechanismError>>)
    ELSE IF ~ StartsWithBearer(AuthorizationOf(req[t].header))
    THEN [status |-> 200, text |-> <<>>, json |-> <<RejectionBody>>]
    ELSE LET failed == {e \in OwnReplies(t, SimpleGreeting)
                                \cup OwnReplies(t, GreetingWithHistory) : ~ e.ok}
         IN IF failed # {}
            THEN [status |-> 200, text |-> <<>>,
                  json |-> <<[pass |-> FALSE, replies |-> <<>>,
                              error |-> <<(CHOOSE e \in failed : TRUE).msg>>]>>]
            ELSE [status |-> 200, text |-> <<>>,
                  json |-> <<[pass |-> TRUE, error |-> <<>>,
                              replies |->
                                << << (CHOOSE e \in OwnReplies(t, SimpleGreeting) : TRUE).msg,
                                      (CHOOSE e \in OwnReplies(t, GreetingWithHistory) : TRUE).msg
                                   >> >>]>>]

\* C9, the reads: with requests served concurrently, every gate of a request reads that
\* request's own header collection, and its answer is the one its own headers,
\* body and model replies determine.
C9_OwnHeadersOnly ==
    \A t \in Tasks :
        /\ \A e \in Events(t) : e.ev = "gate" => e.headers = req[t].header
        /\ Answered(t) => resp[t] = ExpectedResp(t)

\* C9, the writes: a step of one request changes nothing another request holds.
C9_NoSharedWrites ==
    \E t \in Tasks : \A u \in Tasks \ {t} :
        /\ pc'[u] = pc[u] /\ req'[u] = req[u] /\ stack'[u] = stack[u]
        /\ test1'[u] = test1[u] /\ ret'[u] = ret[u]
        /\ resp'[u] = resp[u] /\ log'[u] = log[u]

\* C9: with requests served concurrently in any interleaving, each request's gates
\* and answer depend on its own headers, body and model replies only, and no
\* step of one request writes what another request holds.
C9_Isolation == [] C9_OwnHeadersOnly /\ [][C9_NoSharedWrites]_vars

\* two requests with different headers in flight at once, the second already
\* rejected by its gate while the first waits for the model
C9_Witness ==
    /\ pc[1] = "exec"
    /\ Answered(2)
    /\ req[1].header # req[2].header
    /\ resp[2].json = <<RejectionBody>>
    /\ StartsWithBearer(AuthorizationOf(req[1].header))

\* --------------------------------------------------------------- claim C10
\* C10: within one run of the composite flow the leaf flows read the header
\* collection the composite flow read, their gates pass, and none of them returns
\* "invalid authorization header".
C10_LeafGateAgrees ==
    \A t \in Tasks :
        CoffeeRan(t) =>
            \A e \in Events(t) :
                /\ (e.ev = "gate" /\ e.flow \in LeafFlows) =>
                      /\ e.ok
                      /\ \E g \in Events(t) :
                            /\ g.ev = "gate" /\ g.flow = TestAllCoffeeFlows
                            /\ g.ok = e.ok
                            /\ g.headers = e.headers
                /\ (e.ev = "return" /\ e.flow \in LeafFlows) => e.msg # InvalidAuth

\* a request through the endpoint whose second leaf flow has passed its gate
C10_Witness ==
    /\ IsHttp(1)
    /\ pc[1] = "exec"
    /\ \E e \in Events(1) :
          /\ e.ev = "gate" /\ e.flow = GreetingWithHistory /\ e.ok
          /\ e.headers = req[1].header
          /\ ~ e.headers.nil
====
